---- MODULE Spec2Model ----
(***************************************************************************)
(* Model of the dictionary engine of iniparser (src/src/dictionary.c):     *)
(* hashing, section and key lookup (linear and binary search), insertion,  *)
(* soft deletion, growth, the two sorts and the file-static lookup cache   *)
(* (de_last, hash_last).                                                   *)
(*                                                                         *)
(* C strings are sequences of character codes, a NULL char* is NULL.       *)
(* hash_t (uint32_t) is a pair <<high 16 bits, low 16 bits>>.              *)
(* A dictentry* is a pair <<dictionary id, slot>>: slot 0 is d->noname,    *)
(* slot i >= 1 is &d->entries[i-1]; <<0, 0>> is the NULL pointer.          *)
(* Arrays hold the slots [0, n) the code reads; C index i is element i+1.  *)
(***************************************************************************)
EXTENDS Integers, Sequences, FiniteSets, TLC

VARIABLES dicts, de_last, hash_last, fault, last, gone, calls

vars == <<dicts, de_last, hash_last, fault, last, gone, calls>>

(***************************************************************************)
(* Program constants                                                       *)
(***************************************************************************)
ENTMINSZ == 10
DICTMINSZ == 5

(***************************************************************************)
(* Bounds of the model                                                     *)
(***************************************************************************)
MaxPairs == 3
MaxSections == 2
MaxCalls == 4
MaxLongCalls == 6
MaxGrowKeys == 21
MaxGrowSections == 7
MaxOomSections == 6
MaxOomCalls == 7

(***************************************************************************)
(* Strings                                                                 *)
(***************************************************************************)
NULL == <<-1>>
Colon == 58

\* "qvli" and "ukxe" have the same hash (1691968); "a" hashes to 3392050242
StrQ == <<113, 118, 108, 105>>
StrU == <<117, 107, 120, 101>>
StrA == <<97>>
\* "oxtesww" hashes to 0, as the empty string does
StrZ == <<111, 120, 116, 101, 115, 119, 119>>
Strs == {StrQ, StrU, StrA}

ValY == <<121>>
ValN == <<110>>
Vals == {ValY, ValN}
DefVal == <<63>>

\* "a" .. "v": the keys and section names of the growth scenarios
GrowStr(i) == <<96 + i>>
GrowStrs == {GrowStr(i) : i \in 1..(MaxGrowKeys + 1)}

AllStrs == Strs \cup GrowStrs \cup {<<>>, StrZ}

\* the address "sect:key"
Addr(sect, key) == sect \o <<Colon>> \o key
Addrs == Strs \cup {Addr(s, StrA) : s \in Strs}

\* strcmp(a, b) < 0 on two non-NULL strings
RECURSIVE StrLess(_, _)
StrLess(a, b) ==
    IF Len(b) = 0 THEN FALSE
    ELSE IF Len(a) = 0 THEN TRUE
    ELSE IF a[1] # b[1] THEN a[1] < b[1]
    ELSE StrLess(Tail(a), Tail(b))

\* strchr(str, ':'): index of the first ':' in str, 0 when there is none
RECURSIVE strchr_colon(_, _)
strchr_colon(str, i) ==
    IF i > Len(str) THEN 0
    ELSE IF str[i] = Colon THEN i
    ELSE strchr_colon(str, i + 1)

\* the split of an address at its first ':' as dictionary_get and
\* dictionary_set do it: delim tells whether a ':' was found
SplitAddr(addr) ==
    LET p == strchr_colon(addr, 1)
    IN IF p = 0
       THEN [delim |-> FALSE, sect |-> addr, key |-> addr]
       ELSE [delim |-> TRUE,
             sect |-> SubSeq(addr, 1, p - 1),
             key |-> SubSeq(addr, p + 1, Len(addr))]

(***************************************************************************)
(* hash_t arithmetic, 32 bits wide                                         *)
(***************************************************************************)
W16 == 65536
Hash0 == <<0, 0>>

RECURSIVE Pow2(_)
Pow2(k) == IF k = 0 THEN 1 ELSE 2 * Pow2(k - 1)

RECURSIVE Xor16(_, _, _)
Xor16(a, b, bits) ==
    IF bits = 0 THEN 0
    ELSE ((a + b) % 2) + 2 * Xor16(a \div 2, b \div 2, bits - 1)

hash_add(a, b) ==
    << (a[1] + b[1] + ((a[2] + b[2]) \div W16)) % W16, (a[2] + b[2]) % W16 >>

hash_shl(a, k) ==
    << ((a[1] * Pow2(k)) + ((a[2] * Pow2(k)) \div W16)) % W16,
       (a[2] * Pow2(k)) % W16 >>

hash_shr(a, k) ==
    << a[1] \div Pow2(k),
       (a[2] \div Pow2(k)) + (a[1] % Pow2(k)) * Pow2(16 - k) >>

hash_xor(a, b) == << Xor16(a[1], b[1], 16), Xor16(a[2], b[2], 16) >>

HashLess(a, b) == a[1] < b[1] \/ (a[1] = b[1] /\ a[2] < b[2])

\* hash += (hash << k)
hash_addshl(hash, k) == hash_add(hash, hash_shl(hash, k))

\* hash ^= (hash >> k)
hash_xorshr(hash, k) == hash_xor(hash, hash_shr(hash, k))

\* one round of the loop: hash += key[i]; hash += (hash<<10);
\* hash ^= (hash>>6)
hash_round(hash, c) ==
    hash_xorshr(hash_addshl(hash_add(hash, <<0, c>>), 10), 6)

RECURSIVE hash_loop(_, _, _)
hash_loop(key, i, hash) ==
    IF i > Len(key) THEN hash
    ELSE hash_loop(key, i + 1, hash_round(hash, key[i]))

\* hash += (hash<<3); hash ^= (hash>>11); hash += (hash<<15) after the loop
hash_final(hash) ==
    hash_addshl(hash_xorshr(hash_addshl(hash, 3), 11), 15)

hash_compute(key) ==
    IF key = NULL THEN Hash0
    ELSE hash_final(hash_loop(key, 1, Hash0))

\* the hashes of the strings of the model, computed once
HashTable == [s \in AllStrs \cup {NULL} |-> hash_compute(s)]

dictionary_hash(key) == HashTable[key]

(***************************************************************************)
(* Data: keyval, dictentry, dictionary                                     *)
(***************************************************************************)
\* a keyval filled with zeros (calloc, or memset after a key is erased)
ZeroKV == [key |-> NULL, val |-> NULL, hash |-> Hash0]

\* a dictentry filled with zeros (calloc, or memset after a section is
\* removed); its kvlist is the NULL pointer, which the model writes as len = 0
ZeroEntry ==
    [n |-> 0, len |-> 0, kvlist |-> <<>>, sorted |-> 0, name |-> NULL,
     hash |-> Hash0]

\* a dictentry slot of memory that realloc added: its content is indeterminate
UninitEntry ==
    [n |-> -1, len |-> -1, kvlist |-> <<>>, sorted |-> -1, name |-> NULL,
     hash |-> Hash0]

dictentry_new(size) ==
    [ZeroEntry EXCEPT !.len = IF size < ENTMINSZ THEN ENTMINSZ ELSE size]

dictionary_new(size) ==
    LET sz == IF size < DICTMINSZ THEN DICTMINSZ ELSE size
    IN [n |-> 0, len |-> sz, noname |-> dictentry_new(0),
        entries |-> [i \in 1..sz |-> ZeroEntry], sorted |-> 0]

NullDe == <<0, 0>>

\* the NULL dictionary*; the dictionaries are numbered from 1
NullDict == 0
NonameOf(d) == <<d, 0>>

\* *p for a dictentry pointer p
Deref(D, p) == IF p[2] = 0 THEN D[p[1]].noname ELSE D[p[1]].entries[p[2]]

\* *p = e
StoreDe(D, p, e) ==
    IF p[2] = 0
    THEN [D EXCEPT ![p[1]].noname = e]
    ELSE [D EXCEPT ![p[1]].entries[p[2]] = e]

\* results of a search: a C index >= 0, or one of
NotFound == -1
\* strcmp was handed the NULL name or key of a zeroed slot
Fault == -2

(***************************************************************************)
(* dictentry_find: the section search                                      *)
(***************************************************************************)
\* while(i && elist[--i].hash == hash);
RECURSIVE de_first(_, _, _)
de_first(elist, hash, i) ==
    IF i = 0 THEN 0
    ELSE IF elist[(i - 1) + 1].hash = hash THEN de_first(elist, hash, i - 1)
    ELSE i - 1

\* while(i < L && elist[++i].hash == hash){ if(!strcmp(...)) return }
RECURSIVE de_cluster(_, _, _, _, _)
de_cluster(elist, hash, key, i, L) ==
    IF ~(i < L) THEN NotFound
    ELSE IF elist[(i + 1) + 1].hash # hash THEN NotFound
    ELSE IF elist[(i + 1) + 1].name = NULL THEN Fault
    ELSE IF elist[(i + 1) + 1].name = key THEN i + 1
    ELSE de_cluster(elist, hash, key, i + 1, L)

RECURSIVE de_bsearch(_, _, _, _, _, _)
de_bsearch(elist, hash, key, down, up, L) ==
    IF ~(down <= up) THEN NotFound
    ELSE LET i == (up + down) \div 2
         IN IF elist[i + 1].hash = hash
            THEN IF elist[i + 1].name = NULL THEN Fault
                 ELSE IF elist[i + 1].name = key THEN i
                 ELSE de_cluster(elist, hash, key,
                                 de_first(elist, hash, i), L - 1)
            ELSE IF HashLess(elist[i + 1].hash, hash)
                 THEN de_bsearch(elist, hash, key, i + 1, up, L)
                 ELSE de_bsearch(elist, hash, key, down, i - 1, L)

RECURSIVE de_linear(_, _, _, _, _)
de_linear(elist, hash, key, i, L) ==
    IF ~(i < L) THEN NotFound
    ELSE IF elist[i + 1].hash = hash
         THEN IF elist[i + 1].name = NULL THEN Fault
              ELSE IF elist[i + 1].name = key THEN i
              ELSE de_linear(elist, hash, key, i + 1, L)
         ELSE de_linear(elist, hash, key, i + 1, L)

\* the search of d's section array, without the cache
de_search(D, d, key) ==
    IF D[d].sorted # 0
    THEN de_bsearch(D[d].entries, dictionary_hash(key), key,
                    0, D[d].n - 1, D[d].n)
    ELSE de_linear(D[d].entries, dictionary_hash(key), key, 0, D[d].n)

\* what dictentry_find returns when its search ended with i: on a hit it
\* stores the section in the cache
de_found(D, dl, hl, d, i) ==
    IF i = Fault
    THEN [de |-> NullDe, de_last |-> dl, hash_last |-> hl, fault |-> TRUE]
    ELSE IF i = NotFound
    THEN [de |-> NullDe, de_last |-> dl, hash_last |-> hl, fault |-> FALSE]
    ELSE [de |-> <<d, i + 1>>, de_last |-> <<d, i + 1>>,
          hash_last |-> D[d].entries[i + 1].hash, fault |-> FALSE]

\* de is the pointer returned; de_last and hash_last are the cache afterwards
dictentry_find(D, dl, hl, d, key) ==
    IF d = NullDict \/ key = NULL
    THEN [de |-> NullDe, de_last |-> dl, hash_last |-> hl, fault |-> FALSE]
    ELSE IF hl = dictionary_hash(key)
    THEN [de |-> dl, de_last |-> dl, hash_last |-> hl, fault |-> FALSE]
    ELSE de_found(D, dl, hl, d, de_search(D, d, key))

(***************************************************************************)
(* keyval_find: the key search inside one section                          *)
(***************************************************************************)
\* while(i && kvlist[--i].hash == hash);
RECURSIVE kv_first(_, _, _)
kv_first(kvlist, hash, i) ==
    IF i = 0 THEN 0
    ELSE IF kvlist[(i - 1) + 1].hash = hash THEN kv_first(kvlist, hash, i - 1)
    ELSE i - 1

\* while(i < L && kvlist[++i].hash == hash){ if(!strcmp(...)) return }
RECURSIVE kv_cluster(_, _, _, _, _)
kv_cluster(kvlist, hash, key, i, L) ==
    IF ~(i < L) THEN NotFound
    ELSE IF kvlist[(i + 1) + 1].hash # hash THEN NotFound
    ELSE IF kvlist[(i + 1) + 1].key = NULL THEN Fault
    ELSE IF kvlist[(i + 1) + 1].key = key THEN i + 1
    ELSE kv_cluster(kvlist, hash, key, i + 1, L)

RECURSIVE kv_bsearch(_, _, _, _, _, _)
kv_bsearch(kvlist, hash, key, down, up, L) ==
    IF ~(down <= up) THEN NotFound
    ELSE LET i == (up + down) \div 2
         IN IF kvlist[i + 1].hash = hash
            THEN IF kvlist[i + 1].key = NULL THEN Fault
                 ELSE IF kvlist[i + 1].key = key THEN i
                 ELSE kv_cluster(kvlist, hash, key,
                                 kv_first(kvlist, hash, i), L - 1)
            ELSE IF HashLess(kvlist[i + 1].hash, hash)
                 THEN kv_bsearch(kvlist, hash, key, i + 1, up, L)
                 ELSE kv_bsearch(kvlist, hash, key, down, i - 1, L)

RECURSIVE kv_linear(_, _, _, _, _)
kv_linear(kvlist, hash, key, i, L) ==
    IF ~(i < L) THEN NotFound
    ELSE IF kvlist[i + 1].hash = hash
         THEN IF kvlist[i + 1].key = NULL THEN Fault
              ELSE IF kvlist[i + 1].key = key THEN i
              ELSE kv_linear(kvlist, hash, key, i + 1, L)
         ELSE kv_linear(kvlist, hash, key, i + 1, L)

\* de is the section itself (*de); the result is a C index into de.kvlist
keyval_find(de, key) ==
    IF de.len = 0 THEN NotFound
    ELSE IF de.sorted # 0
    THEN kv_bsearch(de.kvlist, dictionary_hash(key), key, 0, de.n - 1, de.n)
    ELSE kv_linear(de.kvlist, dictionary_hash(key), key, 0, de.n)

\* if(de) kv = keyval_find(de, key), r being the result of the section lookup
find_in(D, r, key) ==
    IF r.fault \/ r.de = NullDe THEN NotFound
    ELSE keyval_find(Deref(D, r.de), key)

(***************************************************************************)
(* dictionary_get                                                          *)
(***************************************************************************)
\* ret is the string returned; de_last and hash_last are the cache afterwards
\* lines 374-382: the section that the split address a denotes
get_section(D, dl, hl, d, a) ==
    IF a.delim
    THEN dictentry_find(D, dl, hl, d, a.sect)
    ELSE IF d = NullDict
    THEN \* d->noname is read through the NULL pointer
         [de |-> NullDe, de_last |-> dl, hash_last |-> hl, fault |-> TRUE]
    ELSE [de |-> NonameOf(d), de_last |-> dl, hash_last |-> hl,
          fault |-> FALSE]

\* lines 389-392: kv is the result of the key search in the section *r.de
get_result(D, r, kv, def) ==
    [ret |-> IF kv >= 0 THEN Deref(D, r.de).kvlist[kv + 1].val ELSE def,
     de_last |-> r.de_last, hash_last |-> r.hash_last,
     fault |-> r.fault \/ kv = Fault]

\* lines 383-392: r is the result of the section lookup
get_key(D, r, key, def) == get_result(D, r, find_in(D, r, key), def)

dictionary_get(D, dl, hl, d, addr, def) ==
    IF addr = NULL
    THEN \* line 370: strdup(key) reads through the NULL pointer
         [ret |-> def, de_last |-> dl, hash_last |-> hl, fault |-> TRUE]
    ELSE get_key(D, get_section(D, dl, hl, d, SplitAddr(addr)),
                 SplitAddr(addr).key, def)

(***************************************************************************)
(* Growth                                                                  *)
(***************************************************************************)
\* dictentry_grow with malloc in the place of realloc: the pairs stored so
\* far are not carried over to the new array
dictentry_grow_lossy(e, oom) ==
    IF oom THEN [ret |-> -1, e |-> e]
    ELSE [ret |-> 0, e |-> [e EXCEPT !.len = e.len + ENTMINSZ,
                                     !.kvlist = [i \in 1..e.n |-> ZeroKV]]]

\* oom: realloc returns NULL.  The result is the return value and *e after
dictentry_grow(e, oom) ==
    IF oom THEN [ret |-> -1, e |-> e]
    ELSE [ret |-> 0, e |-> [e EXCEPT !.len = e.len + ENTMINSZ]]

\* realloc keeps the old slots; the DICTMINSZ new ones are not initialised
dictionary_grow(d, oom) ==
    IF oom THEN [ret |-> -1, d |-> d]
    ELSE [ret |-> 0,
          d |-> [d EXCEPT !.len = d.len + DICTMINSZ,
                          !.entries = d.entries \o
                                      [i \in 1..DICTMINSZ |-> UninitEntry]]]

(***************************************************************************)
(* dictionary_set                                                          *)
(***************************************************************************)
SetResult(D, dl, hl, ret, flt) ==
    [D |-> D, de_last |-> dl, hash_last |-> hl, ret |-> ret, fault |-> flt]

\* lines 486-501: remember de in the cache and append the pair to *de.
\* oomE: the realloc of dictentry_grow fails
\* lines 495-498: g is the section after the growth test, hash its hash
set_push(D, de, hash, g, key, val) ==
    IF g.ret # 0
    THEN SetResult(StoreDe(D, de, g.e), de, hash, -1, FALSE)
    ELSE SetResult(
             StoreDe(D, de,
                 [g.e EXCEPT !.kvlist = Append(g.e.kvlist,
                                 [key |-> key, val |-> val,
                                  hash |-> dictionary_hash(key)]),
                             !.n = g.e.n + 1]),
             de, hash, 0, FALSE)

\* lines 488-494: e1 is *de with sorted = 0
set_grow(D, de, e1, key, val, oomE) ==
    set_push(D, de, e1.hash,
             IF e1.n = e1.len THEN dictentry_grow(e1, oomE)
             ELSE [ret |-> 0, e |-> e1],
             key, val)

set_append(D, de, key, val, oomE) ==
    IF Deref(D, de).n < 0
    THEN \* n, len and kvlist of the slot are indeterminate
         SetResult(D, de, Deref(D, de).hash, 0, TRUE)
    ELSE set_grow(D, de, [Deref(D, de) EXCEPT !.sorted = 0], key, val, oomE)

\* lines 469-485: there is no section for the key: create it.
\* oomD: the realloc of dictionary_grow fails; zeroed: the memory of a slot
\* that realloc added happens to hold zeros
\* lines 479-481: the slot raw, as realloc or calloc left it, becomes the
\* section sect
set_slot(raw, sect, zeroed) ==
    [(IF raw.n < 0 /\ zeroed THEN ZeroEntry ELSE raw)
        EXCEPT !.name = sect, !.hash = dictionary_hash(sect)]

\* lines 473-481: g is the dictionary after the growth test
set_section(D, dl, hl, d, g, sect, key, val, oomE, zeroed) ==
    IF g.ret # 0
    THEN SetResult([D EXCEPT ![d] = g.d], dl, hl, -1, FALSE)
    ELSE set_append(
             [D EXCEPT ![d] =
                 [g.d EXCEPT !.n = g.d.n + 1,
                             !.entries[g.d.n + 1] =
                                 set_slot(g.d.entries[g.d.n + 1], sect, zeroed)]],
             <<d, g.d.n + 1>>, key, val, oomE)

\* lines 471-478: d1 is *d with sorted = 0
set_grow_dict(D, dl, hl, d, d1, sect, key, val, oomD, oomE, zeroed) ==
    set_section(D, dl, hl, d,
                IF d1.n = d1.len THEN dictionary_grow(d1, oomD)
                ELSE [ret |-> 0, d |-> d1],
                sect, key, val, oomE, zeroed)

set_create(D, dl, hl, d, sect, key, val, oomD, oomE, zeroed) ==
    set_grow_dict(D, dl, hl, d, [D[d] EXCEPT !.sorted = 0], sect, key, val,
                  oomD, oomE, zeroed)

\* lines 448-501, r is the result of the section lookup
\* lines 454-463: the key was found at index kv of the section *r.de
set_found(D, r, kv, val) ==
    IF val = NULL
    THEN SetResult(
             StoreDe(D, r.de, [Deref(D, r.de) EXCEPT !.kvlist[kv + 1] = ZeroKV,
                                                     !.sorted = 0]),
             r.de_last, r.hash_last, 0, FALSE)
    ELSE SetResult(
             StoreDe(D, r.de, [Deref(D, r.de) EXCEPT !.kvlist[kv + 1].val = val]),
             r.de_last, r.hash_last, 0, FALSE)

\* lines 453-501, kv is the result of the key search
set_at(D, r, kv, d, a, val, oomD, oomE, zeroed) ==
    IF r.fault \/ kv = Fault
    THEN SetResult(D, r.de_last, r.hash_last, 0, TRUE)
    ELSE IF kv >= 0
    THEN set_found(D, r, kv, val)
    ELSE IF val = NULL
    THEN SetResult(D, r.de_last, r.hash_last, 0, FALSE)
    ELSE IF r.de = NullDe
    THEN set_create(D, r.de_last, r.hash_last, d, a.sect, a.key, val,
                    oomD, oomE, zeroed)
    ELSE set_append(D, r.de, a.key, val, oomE)

\* lines 448-501, r is the result of the section lookup
set_key(D, r, d, a, val, oomD, oomE, zeroed) ==
    set_at(D, r, find_in(D, r, a.key), d, a, val, oomD, oomE, zeroed)

\* lines 437-438: a bare name and no value: is a section called so?
set_lookup(D, dl, hl, d, a, val) ==
    IF ~a.delim /\ val = NULL
    THEN dictentry_find(D, dl, hl, d, a.sect)
    ELSE [de |-> NullDe, de_last |-> dl, hash_last |-> hl, fault |-> FALSE]

\* lines 439-451, r0 is the result of the lookup of lines 437-438: remove
\* the whole section, or go on with the section that holds the key
set_remove(D, r0, d, a, val, oomD, oomE, zeroed) ==
    IF r0.fault
    THEN SetResult(D, r0.de_last, r0.hash_last, 0, TRUE)
    ELSE IF r0.de # NullDe
    THEN SetResult([StoreDe(D, r0.de, ZeroEntry) EXCEPT ![d].sorted = 0],
                   r0.de_last, r0.hash_last, 0, FALSE)
    ELSE set_key(D,
                 IF a.delim
                 THEN dictentry_find(D, r0.de_last, r0.hash_last, d, a.sect)
                 ELSE [r0 EXCEPT !.de = NonameOf(d)],
                 d, a, val, oomD, oomE, zeroed)

\* lines 433-501, a is the address split at its ':'
set_split(D, dl, hl, d, a, val, oomD, oomE, zeroed) ==
    set_remove(D, set_lookup(D, dl, hl, d, a, val), d, a, val,
               oomD, oomE, zeroed)

dictionary_set(D, dl, hl, d, addr, val, oomD, oomE, zeroed) ==
    IF d = NullDict \/ addr = NULL
    THEN SetResult(D, dl, hl, -1, FALSE)
    ELSE set_split(D, dl, hl, d, SplitAddr(addr), val, oomD, oomE, zeroed)

(***************************************************************************)
(* The sorts.  qsort is not stable: every arrangement of the array in      *)
(* which no element compares greater than its successor is an outcome.     *)
(***************************************************************************)
RemoveAt(seq, i) == SubSeq(seq, 1, i - 1) \o SubSeq(seq, i + 1, Len(seq))

RECURSIVE Perms(_)
Perms(seq) ==
    IF seq = <<>> THEN {<<>>}
    ELSE UNION {{<<seq[i]>> \o p : p \in Perms(RemoveAt(seq, i))} :
                i \in 1..Len(seq)}

strcmp(a, b) == IF a = b THEN 0 ELSE IF StrLess(a, b) THEN -1 ELSE 1

cmpvals(p1, p2) ==
    IF HashLess(p1.hash, p2.hash) THEN -1
    ELSE IF HashLess(p2.hash, p1.hash) THEN 1
    ELSE 0

cmpentries(p1, p2) ==
    IF HashLess(p1.hash, p2.hash) THEN -1
    ELSE IF HashLess(p2.hash, p1.hash) THEN 1
    ELSE 0

cmpvalnm(p1, p2) ==
    IF p1.key # NULL /\ p2.key # NULL THEN strcmp(p1.key, p2.key) ELSE 0

cmpentrienm(p1, p2) ==
    IF p1.name # NULL /\ p2.name # NULL THEN strcmp(p1.name, p2.name) ELSE 0

\* the call of the comparison function that qsort was given
compar(cmp, p1, p2) ==
    CASE cmp = "cmpvals" -> cmpvals(p1, p2)
      [] cmp = "cmpentries" -> cmpentries(p1, p2)
      [] cmp = "cmpvalnm" -> cmpvalnm(p1, p2)
      [] cmp = "cmpentrienm" -> cmpentrienm(p1, p2)

qsort(seq, cmp) ==
    {p \in Perms(seq) :
        \A i \in 1..(Len(p) - 1) : compar(cmp, p[i], p[i + 1]) <= 0}

\* the possible contents of *de after dictentry_sort(de)
dictentry_sort(de) ==
    IF de.n = 0 \/ de.sorted # 0 THEN {de}
    ELSE {[de EXCEPT !.kvlist = kl, !.sorted = 1] : kl \in qsort(de.kvlist, "cmpvals")}

\* the possible contents of *de after dictentry_sort_nm(de)
dictentry_sort_nm(de) ==
    IF de.n = 0 THEN {de}
    ELSE {[de EXCEPT !.kvlist = kl] : kl \in qsort(de.kvlist, "cmpvalnm")}

\* the arrays that hold in every slot i < n one of the outcomes of sorting
\* that slot's section
SortDe(de, byhash) ==
    IF byhash THEN dictentry_sort(de) ELSE dictentry_sort_nm(de)

EachSorted(d, byhash) ==
    {es \in [1..d.n -> UNION {SortDe(d.entries[i], byhash) : i \in 1..d.n}] :
        \A i \in 1..d.n : es[i] \in SortDe(d.entries[i], byhash)}

\* the possible contents of *d after dictionary_sort_hash(d)
dictionary_sort_hash(d) ==
    {[d EXCEPT !.noname = nn,
               !.entries = el \o SubSeq(d.entries, d.n + 1, d.len),
               !.sorted = 1] :
        nn \in dictentry_sort(d.noname),
        el \in UNION {qsort(es, "cmpentries") : es \in EachSorted(d, TRUE)}}

\* the possible contents of *d after dictionary_sort(d)
dictionary_sort(d) ==
    {[d EXCEPT !.noname = nn,
               !.entries = el \o SubSeq(d.entries, d.n + 1, d.len)] :
        nn \in dictentry_sort_nm(d.noname),
        el \in UNION {qsort(es, "cmpentrienm") : es \in EachSorted(d, FALSE)}}

(***************************************************************************)
(* dictionary_dump.  The output is the sequence of the fprintf calls made, *)
(* each with its arguments: a pair line ("%-30s = %s\n", key, val) or a    *)
(* section header ("\n[%s]\n", name).                                      *)
(***************************************************************************)
DERR_OK == 0
DERR_BADDATA == 1
DERR_EMPTY == 2

\* the NULL FILE*
NullFile == 0

PairLine(kv) == [fmt |-> "pair", key |-> kv.key, val |-> kv.val]
HeaderLine(name) == [fmt |-> "header", name |-> name]

\* if(kv->key): the pair is not an erased one
HasKey(kv) == kv.key # NULL

\* the lines dictentry_dump(de, out) prints
dictentry_dump(de) ==
    IF de.len = 0 \/ de.n = 0 THEN <<>>
    ELSE [i \in 1..Len(SelectSeq(de.kvlist, HasKey)) |->
             PairLine(SelectSeq(de.kvlist, HasKey)[i])]

\* lines 531-535: the lines printed for the sections elist[i..n]
RECURSIVE dump_sections(_, _, _)
dump_sections(elist, i, n) ==
    IF i > n THEN <<>>
    ELSE IF elist[i].n = 0 THEN dump_sections(elist, i + 1, n)
    ELSE <<HeaderLine(elist[i].name)>> \o dictentry_dump(elist[i])
             \o dump_sections(elist, i + 1, n)

\* a header was printed with the NULL name of a slot: "%s" of a NULL pointer
RECURSIVE dump_fault(_, _, _)
dump_fault(elist, i, n) ==
    /\ i <= n
    /\ \/ elist[i].n # 0 /\ elist[i].name = NULL
       \/ dump_fault(elist, i + 1, n)

\* ret is the status returned, out the lines printed
dictionary_dump(D, d, out) ==
    IF d = NullDict \/ out = NullFile
    THEN [ret |-> DERR_BADDATA, out |-> <<>>, fault |-> FALSE]
    ELSE IF D[d].n < 1
    THEN [ret |-> DERR_EMPTY, out |-> <<>>, fault |-> FALSE]
    ELSE [ret |-> DERR_OK,
          out |-> dictentry_dump(D[d].noname)
                      \o dump_sections(D[d].entries, 1, D[d].n),
          fault |-> dump_fault(D[d].entries, 1, D[d].n)]

(***************************************************************************)
(* State predicates used by the actions and the properties                 *)
(***************************************************************************)
\* a section called name occupies a slot i < n of d's section array
SectionLive(D, d, name) ==
    \E i \in 1..D[d].n : D[d].entries[i].name = name

\* the sections an address can denote: the unnamed one, or the slots that
\* carry the section's name
SectionsOf(D, d, a) ==
    IF a.delim
    THEN {D[d].entries[i] : i \in {j \in 1..D[d].n : D[d].entries[j].name = a.sect}}
    ELSE {D[d].noname}

\* the values the live pairs of the addressed section hold under the key
StoredVals(D, d, addr) ==
    LET a == SplitAddr(addr)
    IN UNION {{e.kvlist[i].val : i \in {j \in 1..e.n : e.kvlist[j].key = a.key}} :
              e \in SectionsOf(D, d, a)}

\* the address denotes a live pair
Live(D, d, addr) == StoredVals(D, d, addr) # {}

\* what dictionary_get(d, addr, DefVal) returns in the current state
GetVal(d, addr) ==
    dictionary_get(dicts, de_last, hash_last, d, addr, DefVal).ret

(***************************************************************************)
(* Actions: one call of the interface each.  last records the latest call: *)
(* for a set its arguments, what it returned, whether the address denoted  *)
(* a live pair before it (live), whether a section with the name before    *)
(* the ':', or with the bare name, existed before it (sect) and whether an *)
(* allocation failed in it (oom); for a get its address and, as val, the   *)
(* string it returned.  gone is the set of section names that              *)
(* were removed as a whole and not written to since; calls counts the set  *)
(* and sort calls made.                                                    *)
(***************************************************************************)
Call(op, d, addr, val, ret, live, sect, oom) ==
    [op |-> op, d |-> d, addr |-> addr, val |-> val, ret |-> ret,
     live |-> live, sect |-> sect, oom |-> oom]

NoArgs(op) == Call(op, 1, NULL, NULL, 0, FALSE, FALSE, FALSE)

\* the number of pair slots in use in the sections es[1..k]
RECURSIVE SlotsUsed(_, _)
SlotsUsed(es, k) ==
    IF k = 0 THEN 0
    ELSE (IF es[k].n > 0 THEN es[k].n ELSE 0) + SlotsUsed(es, k - 1)

InBounds(D, maxSections, maxPairs) ==
    \A d \in DOMAIN D :
        /\ D[d].n <= maxSections
        /\ D[d].noname.n + SlotsUsed(D[d].entries, D[d].n) <= maxPairs

DictionarySet(d, addr, val, oomD, oomE, zeroed, maxSections, maxPairs, maxCalls) ==
    /\ ~fault
    /\ calls < maxCalls
    /\ calls' = calls + 1
    /\ \E r \in {dictionary_set(dicts, de_last, hash_last, d, addr, val,
                                 oomD, oomE, zeroed)} :
           /\ InBounds(r.D, maxSections, maxPairs)
           /\ dicts' = r.D
           /\ de_last' = r.de_last
           /\ hash_last' = r.hash_last
           /\ fault' = r.fault
           /\ last' = Call("set", d, addr, val, r.ret, Live(dicts, d, addr),
                           SectionLive(dicts, d, SplitAddr(addr).sect),
                           r.ret # 0)
    /\ gone' = IF val = NULL /\ ~SplitAddr(addr).delim
                             /\ SectionLive(dicts, d, addr)
               THEN gone \cup {addr}
               ELSE IF val # NULL /\ SplitAddr(addr).delim
               THEN gone \ {SplitAddr(addr).sect}
               ELSE gone

DictionaryGet(d, addr) ==
    /\ ~fault
    /\ \E r \in {dictionary_get(dicts, de_last, hash_last, d, addr, DefVal)} :
           /\ de_last' = r.de_last
           /\ hash_last' = r.hash_last
           /\ fault' = r.fault
           /\ last' = Call("get", d, addr, r.ret, 0, FALSE, FALSE, FALSE)
    /\ UNCHANGED <<dicts, gone, calls>>

\* a set with a NULL dictionary or a NULL address
DictionarySetInvalid(d, addr, val) ==
    /\ ~fault
    /\ d = NullDict \/ addr = NULL
    /\ \E r \in {dictionary_set(dicts, de_last, hash_last, d, addr, val,
                                 FALSE, FALSE, TRUE)} :
           /\ dicts' = r.D
           /\ de_last' = r.de_last
           /\ hash_last' = r.hash_last
           /\ fault' = r.fault
           /\ last' = Call("set", d, addr, val, r.ret, FALSE, FALSE, FALSE)
    /\ UNCHANGED <<gone, calls>>

\* a get with a NULL dictionary or a NULL address; val of last is the
\* string returned
DictionaryGetInvalid(d, addr) ==
    /\ ~fault
    /\ d = NullDict \/ addr = NULL
    /\ \E r \in {dictionary_get(dicts, de_last, hash_last, d, addr, DefVal)} :
           /\ de_last' = r.de_last
           /\ hash_last' = r.hash_last
           /\ fault' = r.fault
           /\ last' = Call("get", d, addr, r.ret, 0, FALSE, FALSE, FALSE)
    /\ UNCHANGED <<dicts, gone, calls>>

\* sect of last tells whether out was a stream (not NULL)
DictionaryDump(d, out) ==
    /\ ~fault
    /\ \E r \in {dictionary_dump(dicts, d, out)} :
           /\ fault' = r.fault
           /\ last' = Call("dump", d, NULL, NULL, r.ret, FALSE,
                           out # NullFile, FALSE)
    /\ UNCHANGED <<dicts, de_last, hash_last, gone, calls>>

DictionarySortHash(d, maxCalls) ==
    /\ ~fault
    /\ calls < maxCalls
    /\ calls' = calls + 1
    /\ \E dd \in dictionary_sort_hash(dicts[d]) :
           dicts' = [dicts EXCEPT ![d] = dd]
    /\ last' = NoArgs("sort_hash")
    /\ UNCHANGED <<de_last, hash_last, fault, gone>>

DictionarySort(d, maxCalls) ==
    /\ ~fault
    /\ calls < maxCalls
    /\ calls' = calls + 1
    /\ \E dd \in dictionary_sort(dicts[d]) :
           dicts' = [dicts EXCEPT ![d] = dd]
    /\ last' = NoArgs("sort")
    /\ UNCHANGED <<de_last, hash_last, fault, gone>>

(***************************************************************************)
(* Spec: one dictionary created with dictionary_new(0); up to MaxCalls     *)
(* set and sort calls, and any number of get calls, on the addresses of    *)
(* Addrs with the values of Vals.                                          *)
(***************************************************************************)
InitSized(size) ==
    /\ dicts = [d \in {1} |-> dictionary_new(size)]
    /\ de_last = NullDe
    /\ hash_last = Hash0
    /\ fault = FALSE
    /\ last = NoArgs("new")
    /\ gone = {}
    /\ calls = 0

Init == InitSized(0)

Next ==
    \/ \E addr \in Addrs, val \in Vals \cup {NULL} :
           DictionarySet(1, addr, val, FALSE, FALSE, TRUE,
                         MaxSections, MaxPairs, MaxCalls)
    \/ \E addr \in Addrs : DictionaryGet(1, addr)
    \/ DictionarySortHash(1, MaxCalls)
    \/ DictionarySort(1, MaxCalls)

Spec == Init /\ [][Next]_vars

(***************************************************************************)
(* SpecLong: as Spec, with longer runs (MaxLongCalls) of calls that store  *)
(* the one value ValY.                                                     *)
(***************************************************************************)
NextLong ==
    \/ \E addr \in Addrs, val \in {ValY, NULL} :
           DictionarySet(1, addr, val, FALSE, FALSE, TRUE,
                         MaxSections, MaxPairs, MaxLongCalls)
    \/ \E addr \in Addrs : DictionaryGet(1, addr)
    \/ DictionarySortHash(1, MaxLongCalls)
    \/ DictionarySort(1, MaxLongCalls)

SpecLong == Init /\ [][NextLong]_vars

(***************************************************************************)
(* SpecDump: as Spec, with dumps to a stream or with a NULL argument.      *)
(***************************************************************************)
NextDump ==
    \/ Next
    \/ \E d \in {NullDict, 1}, out \in {NullFile, 1} : DictionaryDump(d, out)

SpecDump == Init /\ [][NextDump]_vars

(***************************************************************************)
(* SpecArgs: as Spec, with sets and gets that are handed a NULL dictionary *)
(* or a NULL address.                                                      *)
(***************************************************************************)
NullArgs == {<<NullDict, StrA>>, <<NullDict, Addr(StrA, StrA)>>,
             <<NullDict, NULL>>, <<1, NULL>>}

NextArgs ==
    \/ Next
    \/ \E c \in NullArgs, val \in {ValY, NULL} :
           DictionarySetInvalid(c[1], c[2], val)
    \/ \E c \in NullArgs : DictionaryGetInvalid(c[1], c[2])

SpecArgs == Init /\ [][NextArgs]_vars

(***************************************************************************)
(* SpecZero: as Spec, on addresses made of the names "oxtesww", whose hash *)
(* is 0, and "a".                                                          *)
(***************************************************************************)
ZeroAddrs == {StrZ, StrA, Addr(StrZ, StrA), Addr(StrA, StrA)}

NextZero ==
    \/ \E addr \in ZeroAddrs, val \in {ValY, NULL} :
           DictionarySet(1, addr, val, FALSE, FALSE, TRUE,
                         MaxSections, MaxPairs, MaxCalls)
    \/ \E addr \in ZeroAddrs : DictionaryGet(1, addr)
    \/ DictionarySortHash(1, MaxCalls)
    \/ DictionarySort(1, MaxCalls)

SpecZero == Init /\ [][NextZero]_vars

(***************************************************************************)
(* SpecSortDump: sets and deletions of three keys of the section "a",      *)
(* sorts and dumps.                                                        *)
(***************************************************************************)
SortAddrs == {Addr(StrA, StrU), Addr(StrA, StrQ), Addr(StrA, StrA)}

NextSortDump ==
    \/ \E addr \in SortAddrs, val \in {ValY, ValN, NULL} :
           DictionarySet(1, addr, val, FALSE, FALSE, TRUE,
                         MaxSections, MaxPairs, MaxLongCalls)
    \/ DictionarySortHash(1, MaxLongCalls)
    \/ DictionarySort(1, MaxLongCalls)
    \/ DictionaryDump(1, 1)

SpecSortDump == Init /\ [][NextSortDump]_vars

(***************************************************************************)
(* SpecTwo: two dictionaries used in turn, and destroyed.  The storage of  *)
(* a destroyed dictionary keeps its content until the allocator uses it    *)
(* again; a read of it through the cached pointer either sees that content *)
(* or is a memory fault.                                                   *)
(***************************************************************************)
\* *d after dictionary_del(d): released
dictionary_del(dd) ==
    [n |-> dd.n, len |-> dd.len, sorted |-> dd.sorted, noname |-> dd.noname,
     entries |-> dd.entries, freed |-> TRUE]

\* the storage of dictionary d was released
Freed(D, d) == "freed" \in DOMAIN D[d]

\* the call looks a section up with dictentry_find: lines 377, 438, 449
LooksUp(op, addr, val) ==
    SplitAddr(addr).delim \/ (op = "set" /\ val = NULL)

\* line 256 returns the cached pointer for the section name of the address
CacheHit(addr) ==
    hash_last = dictionary_hash(SplitAddr(addr).sect) /\ de_last # NullDe

DictionaryDel(d, maxCalls) ==
    /\ ~fault
    /\ ~Freed(dicts, d)
    /\ calls < maxCalls
    /\ calls' = calls + 1
    /\ dicts' = [dicts EXCEPT ![d] = dictionary_del(dicts[d])]
    /\ last' = Call("del", d, NULL, NULL, 0, FALSE, FALSE, FALSE)
    /\ UNCHANGED <<de_last, hash_last, fault, gone>>

\* a get or set on d whose lookup returns the cached pointer into released
\* storage, which the call then reads: the outcome that is a memory fault
StaleAccess(op, d, addr, val) ==
    /\ ~fault
    /\ ~Freed(dicts, d)
    /\ LooksUp(op, addr, val)
    /\ CacheHit(addr)
    /\ Freed(dicts, de_last[1])
    /\ fault' = TRUE
    /\ last' = Call(op, d, addr, val, 0, FALSE, FALSE, FALSE)
    /\ UNCHANGED <<dicts, de_last, hash_last, gone, calls>>

TwoDicts == {1, 2}
TwoAddrs == {StrA, Addr(StrA, StrA), Addr(StrQ, StrA)}

InitTwo ==
    /\ dicts = [d \in TwoDicts |-> dictionary_new(0)]
    /\ de_last = NullDe
    /\ hash_last = Hash0
    /\ fault = FALSE
    /\ last = NoArgs("new")
    /\ gone = {}
    /\ calls = 0

\* the calls on a dictionary that was not destroyed
TwoSet(d, addr, val) ==
    /\ ~Freed(dicts, d)
    /\ DictionarySet(d, addr, val, FALSE, FALSE, TRUE,
                     MaxSections, MaxPairs, MaxCalls)

TwoGet(d, addr) == ~Freed(dicts, d) /\ DictionaryGet(d, addr)

TwoSortHash(d) == ~Freed(dicts, d) /\ DictionarySortHash(d, MaxCalls)

NextTwo ==
    \/ \E d \in TwoDicts, addr \in TwoAddrs, val \in {ValY, NULL} :
           TwoSet(d, addr, val)
    \/ \E d \in TwoDicts, addr \in TwoAddrs : TwoGet(d, addr)
    \/ \E d \in TwoDicts : TwoSortHash(d)
    \/ \E d \in TwoDicts : DictionaryDel(d, MaxCalls)
    \/ \E d \in TwoDicts, addr \in TwoAddrs, val \in {ValY, NULL} :
           StaleAccess("set", d, addr, val)
    \/ \E d \in TwoDicts, addr \in TwoAddrs :
           StaleAccess("get", d, addr, NULL)

SpecTwo == InitTwo /\ [][NextTwo]_vars

(***************************************************************************)
(* SpecKeyGrow: a caller that fills the unnamed section and the section    *)
(* "qvli" of a new dictionary with the keys "a", "b", "c", ... in this     *)
(* order, each with its own value, and reads them back.                    *)
(***************************************************************************)
OwnVal(key) == <<key[1] - 32>>

GrowKeys == {GrowStr(i) : i \in 1..MaxGrowKeys}
GrowKeyAddrs == GrowKeys \cup {Addr(StrQ, k) : k \in GrowKeys}

\* the number of pairs the section denoted by the prefix of addr holds
PairsIn(D, d, prefix) ==
    IF prefix = NULL THEN D[d].noname.n
    ELSE IF SectionLive(D, d, prefix)
    THEN (CHOOSE e \in SectionsOf(D, d, [delim |-> TRUE, sect |-> prefix]) : TRUE).n
    ELSE 0

GrowSetKey(prefix) ==
    LET k == PairsIn(dicts, 1, prefix) + 1
        key == GrowStr(k)
        addr == IF prefix = NULL THEN key ELSE Addr(prefix, key)
    IN /\ k <= MaxGrowKeys
       /\ DictionarySet(1, addr, OwnVal(key), FALSE, FALSE, TRUE,
                        1, 2 * MaxGrowKeys, 2 * MaxGrowKeys)

NextKeyGrow ==
    \/ \E prefix \in {NULL, StrQ} : GrowSetKey(prefix)
    \/ \E addr \in GrowKeyAddrs : DictionaryGet(1, addr)

SpecKeyGrow == Init /\ [][NextKeyGrow]_vars

(***************************************************************************)
(* SpecSectGrow: a caller that creates the sections "a", "b", "c", ... of  *)
(* a dictionary made with dictionary_new(0) or dictionary_new(6), each     *)
(* with the key "a" and then the key "b", and reads them back.  The memory *)
(* that realloc adds to the section array may hold zeros or not.           *)
(***************************************************************************)
GrowSections == {GrowStr(i) : i \in 1..MaxGrowSections}
GrowSectKeys == {StrA, GrowStr(2)}
GrowSectAddrs == {Addr(s, k) : s \in GrowSections, k \in GrowSectKeys}

InitSectGrow == \E size \in {0, DICTMINSZ + 1} : InitSized(size)

\* the next section is created with its key "a"; the sections that exist
\* can be given the key "b"
GrowSetSection(j, key, zeroed) ==
    LET sect == GrowStr(j)
        addr == Addr(sect, key)
    IN /\ j <= dicts[1].n + 1
       /\ j = dicts[1].n + 1 => key = StrA
       /\ ~Live(dicts, 1, addr)
       /\ DictionarySet(1, addr, OwnVal(sect) \o key, FALSE, FALSE, zeroed,
                        MaxGrowSections, 2 * MaxGrowSections,
                        2 * MaxGrowSections)

NextSectGrow ==
    \/ \E j \in 1..MaxGrowSections, key \in GrowSectKeys, zeroed \in BOOLEAN :
           GrowSetSection(j, key, zeroed)
    \/ \E addr \in GrowSectAddrs : DictionaryGet(1, addr)

SpecSectGrow == InitSectGrow /\ [][NextSectGrow]_vars

\* what dictionary_get(d, addr, DefVal) returns in the state a step leads to
GetValNext(d, addr) ==
    dictionary_get(dicts', de_last', hash_last', d, addr, DefVal).ret

\* what dictentry_find(d1, name) returns in the current state
dictionary_find_result(name) ==
    dictentry_find(dicts, de_last, hash_last, 1, name)

(***************************************************************************)
(* SpecOom: a caller that creates the sections "a", "b", "c", ... of a new *)
(* dictionary, each with the key "a", where every realloc of a growth may  *)
(* fail (the memory it adds is zero when it succeeds), and that may sort   *)
(* the dictionary by hash in between.                                      *)
(***************************************************************************)
OomAddrs == {Addr(GrowStr(j), StrA) : j \in 1..MaxOomSections}

\* the next section is created with its key "a"
OomSetSection(j, oomD, oomE) ==
    /\ j = dicts[1].n + 1
    /\ DictionarySet(1, Addr(GrowStr(j), StrA), OwnVal(GrowStr(j)),
                     oomD, oomE, TRUE,
                     MaxOomSections, MaxOomSections, MaxOomCalls)

NextOom ==
    \/ \E j \in 1..MaxOomSections, oomD \in BOOLEAN, oomE \in BOOLEAN :
           OomSetSection(j, oomD, oomE)
    \/ \E addr \in OomAddrs : DictionaryGet(1, addr)
    \/ DictionarySortHash(1, MaxOomCalls)

SpecOom == Init /\ [][NextOom]_vars

(***************************************************************************)
(* Properties                                                              *)
(***************************************************************************)
\* the sections of dictionary 1: the unnamed one and the slots in use
Sections1 ==
    {dicts[1].noname} \cup {dicts[1].entries[i] : i \in 1..dicts[1].n}

\* the indices (from 1) of the live pairs of section e that carry the key
LiveAt(e, key) == {i \in 1..e.n : e.kvlist[i].key = key}

\* C1: round trip: when set(d, a, v) with a present value v has returned
\* success, the get(d, a, default) that follows it returns v
C1_RoundTrip ==
    (last.op = "set" /\ last.val # NULL /\ last.ret = 0)
        => GetVal(1, last.addr) = last.val

\* C4: sort invariance under sort_by_hash: after the sort every address
\* yields from get the value it yielded before it
C4_SortHashInvariance ==
    [][last'.op = "sort_hash"
          => \A a \in Addrs : GetVal(1, a)' = GetVal(1, a)]_vars

\* C5: sort invariance under sort_by_name: after the sort every address
\* yields from get the value it yielded before it
C5_SortNameInvariance ==
    [][last'.op = "sort"
          => \A a \in Addrs : GetVal(1, a)' = GetVal(1, a)]_vars

\* C6: key collision correctness: two distinct keys with the same hash that
\* are both live in one section are each found by the key search of that
\* section, which returns the key's own pair, sorted or not
C6_KeyCollision ==
    \A e \in Sections1 : \A k1 \in Strs, k2 \in Strs :
        (/\ k1 # k2
         /\ dictionary_hash(k1) = dictionary_hash(k2)
         /\ LiveAt(e, k1) # {}
         /\ LiveAt(e, k2) # {})
            => keyval_find(e, k1) + 1 \in LiveAt(e, k1)

\* C7: section resolution compares names: a lookup of a section name never
\* returns a section whose name differs from the one asked for
C7_SectionByName ==
    \A name \in Strs :
        LET r == dictionary_find_result(name)
        IN r.de # NullDe => Deref(dicts, r.de).name = name

\* C10: a lookup miss yields the default: when the addressed section does
\* not exist or the key is not live in it, get returns the default
C10_MissYieldsDefault ==
    \A a \in Addrs : ~Live(dicts, 1, a) => GetVal(1, a) = DefVal

\* the address of a call denotes a key: it has a ':', or it is a bare name
\* that was not the name of a section when the call was made
KeyCall(c) == SplitAddr(c.addr).delim \/ ~c.sect

\* C2: key deletion: for a live key address a, set(d, a, absent) returns
\* success and the get that follows returns the default; the set(d, a, v)
\* that follows the deletion succeeds and the get after it returns v
C2_KeyDeletion ==
    [][(last'.op = "set" /\ KeyCall(last')) =>
          /\ (last'.val = NULL /\ last'.live)
                => (last'.ret = 0 /\ GetValNext(1, last'.addr) = DefVal)
          /\ (/\ last'.val # NULL
              /\ last.op = "set"
              /\ last.addr = last'.addr
              /\ last.val = NULL
              /\ last.live
              /\ KeyCall(last))
                => (last'.ret = 0 /\ GetValNext(1, last'.addr) = last'.val)]_vars

\* C3: section deletion cascades: as long as a section that was removed as
\* a whole has not been written to again, get returns the default for every
\* key of it
C3_SectionDeleteCascades ==
    \A a \in Addrs :
        (SplitAddr(a).delim /\ SplitAddr(a).sect \in gone)
            => GetVal(1, a) = DefVal

\* the address of the k-th key given to the section with the prefix
GrowAddr(prefix, k) ==
    IF prefix = NULL THEN GrowStr(k) ELSE Addr(prefix, GrowStr(k))

\* C8: key growth correctness: every insertion of a further distinct key
\* into a section succeeds, also when the section is at its capacity, and
\* every key inserted so far is retrievable with its own value
C8_KeyGrowth ==
    /\ last.op = "set" => last.ret = 0
    /\ \A prefix \in {NULL, StrQ} :
           \A k \in 1..PairsIn(dicts, 1, prefix) :
               GetVal(1, GrowAddr(prefix, k)) = OwnVal(GrowStr(k))

\* 15 keys are in the section "qvli", more than its capacity before the
\* growth, and the unnamed section has grown as well
C8_Grown ==
    /\ last.op = "set"
    /\ PairsIn(dicts, 1, StrQ) = ENTMINSZ + 5
    /\ dicts[1].noname.n > ENTMINSZ
    /\ dicts[1].noname.len > ENTMINSZ

\* C9: section growth correctness: creating a further section succeeds,
\* also when the section array is at its capacity; the slots that growth
\* added and that are not in use yet are empty sections; every key of every
\* section stays retrievable with its value
C9_SectionGrowth ==
    /\ ~fault
    /\ last.op = "set" => last.ret = 0
    /\ \A i \in (dicts[1].n + 1)..dicts[1].len :
           dicts[1].entries[i].n = 0 /\ dicts[1].entries[i].kvlist = <<>>
    /\ \A s \in GrowSections, k \in GrowSectKeys :
           Live(dicts, 1, Addr(s, k)) => GetVal(1, Addr(s, k)) = OwnVal(s) \o k

\* the names of the sections that occupy the slots in use of d
LiveNames(D, d) == {D[d].entries[i].name : i \in 1..D[d].n} \ {NULL}

\* C11: bare-address delete: set(d, name, absent) with no ':' removes the
\* section called name when there is one, and then leaves the unnamed
\* section as it is; when there is none it deletes the unnamed key name; it
\* never removes a section with another name
C11_BareDelete ==
    [][(last'.op = "set" /\ last'.val = NULL
                         /\ ~SplitAddr(last'.addr).delim) =>
          /\ LiveNames(dicts', 1) = LiveNames(dicts, 1) \ {last'.addr}
          /\ last'.sect => dicts'[1].noname = dicts[1].noname
          /\ ~last'.sect => ~Live(dicts', 1, last'.addr)]_vars

\* d has no section and no live pair in its unnamed section
DictEmpty(D, d) ==
    /\ D[d].n = 0
    /\ \A i \in 1..D[d].noname.n : D[d].noname.kvlist[i].key = NULL

\* C12: dump status: dump reports bad input when the dictionary or the
\* stream is NULL, reports empty exactly when the dictionary has no section
\* and no unnamed pair, and succeeds otherwise
C12_DumpStatus ==
    last.op = "dump" =>
        IF last.d = NullDict \/ ~last.sect
        THEN last.ret = DERR_BADDATA
        ELSE IF DictEmpty(dicts, 1)
        THEN last.ret = DERR_EMPTY
        ELSE last.ret = DERR_OK

IsHeader(line) == line.fmt = "header"

\* the slot is not a removed section: if(!de->n) continue
HasPairs(e) == e.n # 0

\* the index of the first header of out, Len(out) + 1 when there is none
RECURSIVE FirstHeader(_, _)
FirstHeader(out, i) ==
    IF i > Len(out) THEN i
    ELSE IF IsHeader(out[i]) THEN i
    ELSE FirstHeader(out, i + 1)

\* C13: dump content: a successful dump prints the live pairs of the unnamed
\* section first, without header, then one header per section slot with
\* count > 0, in array order; erased pairs print nothing; every header
\* carries the name of a section that a lookup resolves
C13_DumpContent ==
    \A r \in {dictionary_dump(dicts, 1, 1)} :
        r.ret = DERR_OK =>
            /\ SubSeq(r.out, 1, FirstHeader(r.out, 1) - 1)
                   = dictentry_dump(dicts[1].noname)
            /\ Len(SelectSeq(r.out, IsHeader))
                   = Len(SelectSeq(SubSeq(dicts[1].entries, 1, dicts[1].n),
                                   HasPairs))
            /\ \A i \in 1..Len(r.out) :
                   IF IsHeader(r.out[i])
                   THEN /\ r.out[i].name # NULL
                        /\ SectionLive(dicts, 1, r.out[i].name)
                        /\ dictionary_find_result(r.out[i].name).de # NullDe
                   ELSE r.out[i].key # NULL

\* C14: allocation-failure atomicity: when a set fails because the growth
\* of the section array or of a section's pair array failed, the dictionary
\* is exactly as it was before the call
C14_OomAtomic ==
    [][(last'.op = "set" /\ last'.ret # 0) => dicts' = dicts]_vars

\* C15: unnamed-section invariant: in every reachable state the unnamed
\* section exists and keeps its pair storage; it is never zeroed as a whole
C15_UnnamedKept ==
    /\ dicts[1].noname.len >= ENTMINSZ
    /\ Len(dicts[1].noname.kvlist) = dicts[1].noname.n

\* C16: invalid arguments: a get or a set with a null dictionary or a null
\* address fails at once (set returns non-zero, get yields the default)
\* without a memory fault and without modifying any dictionary
C16_InvalidArgs ==
    [][(/\ last'.op \in {"set", "get"}
        /\ last'.d = NullDict \/ last'.addr = NULL) =>
          /\ ~fault'
          /\ dicts' = dicts
          /\ last'.op = "set" => last'.ret # 0
          /\ last'.op = "get" => last'.val = DefVal]_vars

\* the address of the pair with key k in the section called nm (NULL for
\* the unnamed section)
SlotAddr(nm, k) == IF nm = NULL THEN k ELSE Addr(nm, k)

\* the call c removes the section called nm as a whole
RemovesSection(c, nm) ==
    c.val = NULL /\ ~SplitAddr(c.addr).delim /\ c.addr = nm

\* the live pairs of section e, called nm, that the call c does not
\* address are in the same slots, with the same values, in section f
PairsKept(c, nm, e, f) ==
    \A j \in 1..e.n :
        (e.kvlist[j].key # NULL /\ SlotAddr(nm, e.kvlist[j].key) # c.addr)
            => /\ j <= f.n
               /\ f.kvlist[j].key = e.kvlist[j].key
               /\ f.kvlist[j].val = e.kvlist[j].val

\* C17: frame of set and delete: a successful set(d, a, v), with v present
\* or absent, leaves get(d, b, default) unchanged for every other address b
\* that is not a key of a section removed by the call, and leaves every
\* other live section and live pair in its slot
C17_SetFrame ==
    [][(last'.op = "set" /\ last'.ret = 0) =>
          /\ \A b \in Addrs \ {last'.addr} :
                 ~(SplitAddr(b).delim /\ RemovesSection(last', SplitAddr(b).sect))
                     => GetValNext(1, b) = GetVal(1, b)
          /\ PairsKept(last', NULL, dicts[1].noname, dicts'[1].noname)
          /\ \A i \in 1..dicts[1].n :
                 (/\ dicts[1].entries[i].name # NULL
                  /\ ~RemovesSection(last', dicts[1].entries[i].name))
                     => /\ dicts'[1].entries[i].name = dicts[1].entries[i].name
                        /\ PairsKept(last', dicts[1].entries[i].name,
                                     dicts[1].entries[i], dicts'[1].entries[i])]_vars

\* the first n elements of seq are in non-decreasing hash order
HashOrdered(seq, n) ==
    \A i \in 1..(n - 1) : ~HashLess(seq[i + 1].hash, seq[i].hash)

\* C18: sorted-flag soundness: a section whose sorted flag is set has its
\* pairs [0, n) in non-decreasing hash order, and a dictionary whose sorted
\* flag is set has its sections [0, n) in non-decreasing hash order
C18_SortedSound ==
    /\ \A e \in Sections1 : e.sorted # 0 => HashOrdered(e.kvlist, e.n)
    /\ dicts[1].sorted # 0 => HashOrdered(dicts[1].entries, dicts[1].n)

\* section f holds the pairs of section e, in some order
SamePairs(e, f) ==
    /\ f.name = e.name
    /\ f.hash = e.hash
    /\ f.n = e.n
    /\ SubSeq(f.kvlist, 1, f.n) \in Perms(SubSeq(e.kvlist, 1, e.n))

\* section f is what sort_by_hash is to leave of section e
HashSorted(e, f) ==
    /\ SamePairs(e, f)
    /\ f.n > 0 => (f.sorted # 0 /\ HashOrdered(f.kvlist, f.n))

\* C19: sort_by_hash postcondition: after sort_by_hash(d) the dictionary's
\* sorted flag is set, the section array is a permutation of its previous
\* contents in non-decreasing hash order, and every section with n > 0,
\* the unnamed one included, has its sorted flag set and its pair array a
\* permutation of its previous contents in non-decreasing hash order
C19_SortHashPost ==
    [][last'.op = "sort_hash" =>
          /\ dicts'[1].sorted # 0
          /\ dicts'[1].n = dicts[1].n
          /\ HashOrdered(dicts'[1].entries, dicts'[1].n)
          /\ HashSorted(dicts[1].noname, dicts'[1].noname)
          /\ \E p \in Perms([i \in 1..dicts[1].n |-> i]) :
                 \A i \in 1..dicts[1].n :
                     HashSorted(dicts[1].entries[p[i]], dicts'[1].entries[i])]_vars

\* the lines of a dump are in name order: the section headers ascend, and
\* so do the keys of the pairs between two headers
DumpOrdered(out) ==
    \A i \in 1..Len(out) : \A j \in (i + 1)..Len(out) :
        /\ (IsHeader(out[i]) /\ IsHeader(out[j]))
               => strcmp(out[i].name, out[j].name) < 0
        /\ (/\ ~IsHeader(out[i])
            /\ \A k \in i..j : ~IsHeader(out[k]))
               => strcmp(out[i].key, out[j].key) < 0

\* C20: sort_by_name ordering: after sort_by_name(d) a dump lists the live
\* sections in ascending name order and, inside every section, the live
\* keys in ascending key order, also when the arrays hold tombstoned pairs
\* or tombstoned sections between live ones
C20_SortNameOrder ==
    last.op = "sort" => DumpOrdered(dictionary_dump(dicts, 1, 1).out)

\* the section slot e is a tombstone: entirely zeroed
SectionTombstone(e) ==
    /\ e.name = NULL
    /\ e.hash = Hash0
    /\ e.n = 0
    /\ e.len = 0
    /\ e.kvlist = <<>>

\* C21: section-slot well-formedness: every slot i < n of the section array
\* is a live section with a name, with hash = Hash(name) and a name unique
\* among the live sections, or an entirely zeroed tombstone; no slot holds
\* pairs while it has no name
C21_SectionSlots ==
    \A i \in 1..dicts[1].n :
        IF dicts[1].entries[i].name = NULL
        THEN SectionTombstone(dicts[1].entries[i])
        ELSE /\ dicts[1].entries[i].hash
                    = dictionary_hash(dicts[1].entries[i].name)
             /\ \A j \in 1..dicts[1].n :
                    dicts[1].entries[j].name = dicts[1].entries[i].name
                        => j = i

\* the slots [0, n) of section e are live pairs with a non-empty key, with
\* hash = Hash(key) and a key unique among them, or zeroed tombstones
PairSlots(e) ==
    \A i \in 1..e.n :
        IF e.kvlist[i].key = NULL
        THEN e.kvlist[i] = ZeroKV
        ELSE /\ e.kvlist[i].key # <<>>
             /\ e.kvlist[i].hash = dictionary_hash(e.kvlist[i].key)
             /\ \A j \in 1..e.n :
                    e.kvlist[j].key = e.kvlist[i].key => j = i

\* C22: pair-slot well-formedness: in every section every slot i < n is a
\* live pair with a non-empty key, hash = Hash(key) and a key unique among
\* the live pairs of the section, or a fully zeroed tombstone
C22_PairSlots == \A e \in Sections1 : PairSlots(e)

\* section f is section e after a call that did not remove it: its count
\* has not decreased, and its capacity is the same or has grown by
\* ENTMINSZ from a full array
CountKept(e, f) ==
    /\ f.n >= e.n
    /\ f.len = e.len \/ (f.len = e.len + ENTMINSZ /\ e.n = e.len)

\* C23: count discipline: n <= len for every section and for the
\* dictionary; no set decreases the count of a section it does not remove,
\* no call decreases the number of section slots in use, and a capacity
\* changes only by ENTMINSZ pairs or DICTMINSZ sections, at an insertion
\* into a full array
C23_CountDiscipline ==
    [][/\ dicts'[1].n <= dicts'[1].len
       /\ \A i \in 1..dicts'[1].n : dicts'[1].entries[i].n <= dicts'[1].entries[i].len
       /\ dicts'[1].noname.n <= dicts'[1].noname.len
       /\ dicts'[1].n >= dicts[1].n
       /\ \/ dicts'[1].len = dicts[1].len
          \/ /\ dicts'[1].len = dicts[1].len + DICTMINSZ
             /\ dicts[1].n = dicts[1].len
             /\ last'.op = "set" /\ last'.val # NULL
       /\ CountKept(dicts[1].noname, dicts'[1].noname)
       /\ last'.op = "set" =>
              \A i \in 1..dicts[1].n :
                  \/ SectionTombstone(dicts'[1].entries[i])
                  \/ CountKept(dicts[1].entries[i], dicts'[1].entries[i])]_vars

\* C24: no tombstone reuse: when a live key was deleted from a section and
\* is set again right after, the new pair is appended at index n (n
\* increases by exactly 1), the tombstoned slot stays zeroed and the other
\* slots are not moved; the call returns success, without a memory fault
C24_NoTombstoneReuse ==
    [][(/\ last'.op = "set" /\ last'.val # NULL
        /\ last.op = "set" /\ last.val = NULL /\ last.live
        /\ last.addr = last'.addr
        /\ KeyCall(last)
        /\ ~Live(dicts, 1, last.addr)) =>
          /\ ~fault'
          /\ last'.ret = 0
          /\ \A e \in SectionsOf(dicts, 1, SplitAddr(last.addr)) :
                 \E f \in SectionsOf(dicts', 1, SplitAddr(last.addr)) :
                     /\ f.n = e.n + 1
                     /\ SubSeq(f.kvlist, 1, e.n) = SubSeq(e.kvlist, 1, e.n)
                     /\ f.kvlist[f.n].key = SplitAddr(last.addr).key
                     /\ f.kvlist[f.n].val = last'.val]_vars

\* the key search of section e for x compares x with no absent key and
\* returns a live pair with the key x, or not-found when there is none
KeyLookupSound(e, x) ==
    \A r \in {keyval_find(e, x)} :
        /\ r # Fault
        /\ IF LiveAt(e, x) = {} THEN r = NotFound ELSE r + 1 \in LiveAt(e, x)

\* the cache-free section search for x compares x with no absent name and
\* returns a live section called x, or not-found when there is none
SectionLookupSound(D, d, x) ==
    \A r \in {de_search(D, d, x)} :
        /\ r # Fault
        /\ IF SectionLive(D, d, x)
           THEN r >= 0 /\ D[d].entries[r + 1].name = x
           ELSE r = NotFound

\* C25: tombstones never match: for every key or section name x, also one
\* whose hash is 0, a lookup in an array with tombstoned slots returns no
\* tombstone and compares x with no absent key or name; it returns the
\* live slot of x if there is one and not-found otherwise
C25_TombstonesNeverMatch ==
    \A x \in {StrZ, StrA} :
        /\ \A e \in Sections1 : KeyLookupSound(e, x)
        /\ SectionLookupSound(dicts, 1, x)

\* what dictentry_find(d1, name) would return without lines 254-256, the
\* consultation of the cache
dictentry_find_nocache(name) ==
    de_found(dicts, de_last, hash_last, 1, de_search(dicts, 1, name)).de

\* C26: cache transparency: for every section name the cached lookup
\* returns the section that the cache-free search of the dictionary's
\* section array returns
C26_CacheTransparent ==
    \A name \in Strs :
        de_search(dicts, 1, name) # Fault
            => dictionary_find_result(name).de = dictentry_find_nocache(name)

\* C27: no stale cache dereference: whenever a lookup in a dictionary that
\* is in use returns the cached section, that section lies in a dictionary
\* that has not been destroyed; no call reads storage of a destroyed one
C27_NoStaleCache ==
    \A d \in DOMAIN dicts : \A addr \in TwoAddrs :
        (~Freed(dicts, d) /\ CacheHit(addr)) => ~Freed(dicts, de_last[1])

\* C28: dictionary isolation: with two dictionaries in use, a get, set,
\* delete or sort on one of them changes neither the contents of the other
\* nor the result of any get on the other
C28_Isolation ==
    [][(/\ last'.op \in {"set", "get", "sort_hash"}
        /\ \A d \in TwoDicts : ~Freed(dicts, d)) =>
          \A d2 \in TwoDicts \ {last'.d} :
              /\ dicts'[d2] = dicts[d2]
              /\ \A b \in TwoAddrs : GetValNext(d2, b) = GetVal(d2, b)]_vars

\* C29: deleting what is absent is a no-op: set(d, a, absent) for an
\* address a that denotes no live pair and no section returns success and
\* leaves the dictionary unchanged: no section is created, no count
\* changes, no pair is modified and no sorted flag is cleared
C29_AbsentDeleteNoOp ==
    [][(/\ last'.op = "set"
        /\ last'.val = NULL
        /\ ~last'.live
        /\ KeyCall(last')) =>
          /\ ~fault'
          /\ last'.ret = 0
          /\ dicts' = dicts]_vars

====
